---- MODULE Spec2Model ----
(***************************************************************************)
(* Order / cart / inventory logic and the account state machine of the     *)
(* multi-vendor clothing sales platform, as the controllers implement it.  *)
(*                                                                         *)
(* The persisted store is `db`.  The controllers work through one ORM      *)
(* session, `sess`: the rows as the session sees them, i.e. the persisted  *)
(* rows plus every change made since the last commit.  db.session.commit() *)
(* persists the whole session (db' = sess), db.session.rollback() and the  *)
(* removal of the session at the end of an application context discard the *)
(* pending changes (sess' = db).  Queries autoflush, so every read in a    *)
(* controller reads `sess`.                                                *)
(*                                                                         *)
(* Money is counted in whole minor units (integers).                       *)
(***************************************************************************)
EXTENDS Integers, Sequences, FiniteSets, TLC

\* ------------------------------------------------------------------ bounds
MaxInv == 2       \* largest inventory a SKU starts with or is edited to
MaxQty == 2       \* largest quantity argument of a cart operation
MaxLine == 2      \* largest quantity a cart line is allowed to reach
MaxOrders == 2    \* orders created in one behaviour
MaxUsers == 2     \* accounts registered in one behaviour
MaxReviews == 2   \* reviews written in one behaviour

\* ------------------------------------------------------------ fixed catalog
Products == {"p1", "p2"}
SKUs == {"s1", "s2"}
Prices == {2, 3}
Adjustments == {0, 1}
QtyArgs == -1 .. MaxQty
Passwords == {"pw1", "pw2"}
Emails == 1 .. MaxUsers

\* Rating arguments: the two ends of the accepted range and their neighbours.
RatingArgs == {0, 1, 5, 6}

\* Comments of a review; NoComment is the "no new comment" argument (None).
NoComment == "None"
FirstComment == "c0"
NewComment == "c1"

\* Faulty variant of valid_statuses: one status more is accepted.
valid_statuses_and_refunded ==
    {"pending", "paid", "processing", "shipped", "delivered", "cancelled", "refunded"}

\* The order statuses update_order_status accepts.
valid_statuses == {"pending", "paid", "processing", "shipped", "delivered", "cancelled"}

NoUser == 0

\* "No new email" / "no new name" arguments of update_profile (None).
NoEmail == 0
NoName == ""

\* The name every account registers with, and the one a profile edit sets.
RegisteredName == "n0"
NewName == "n1"

Customers == {1, 2}

VARIABLES db, sess, current_user, initial_inventory, last, txn

vars == <<db, sess, current_user, initial_inventory, last, txn>>

\* db, sess: the persisted rows and the rows as the session of the sequential
\* operations sees them.  current_user: the logged-in account.  last: the last
\* operation, its arguments and its outcome.  initial_inventory: the stock
\* each SKU started with.  txn[c]: the checkout of customer c that runs in a
\* session of its own next to other checkouts: where it is, the cart lines it
\* read, the inventory it read and the inventory it will write per SKU, and
\* the order items it built.
Idle ==
    [pc |-> "idle", items |-> <<>>, i |-> 0, loaded |-> {},
     read |-> [s \in SKUs |-> 0], inventory |-> [s \in SKUs |-> 0], order_items |-> <<>>]

\* ------------------------------------------------------------------ helpers
RECURSIVE SumLineTotals(_)
SumLineTotals(items) ==
    IF items = <<>> THEN 0 ELSE Head(items).line_total + SumLineTotals(Tail(items))

\* Index of the first line of `items` for sku_id, 0 when there is none
\* (CartItem.query.filter_by(cart_id, sku_id).first()).
first_item(items, sku_id) ==
    IF \E i \in 1 .. Len(items) : items[i].sku_id = sku_id
    THEN CHOOSE i \in 1 .. Len(items) :
            /\ items[i].sku_id = sku_id
            /\ \A j \in 1 .. (i - 1) : items[j].sku_id # sku_id
    ELSE 0

RemoveAt(items, i) ==
    [j \in 1 .. (Len(items) - 1) |-> IF j < i THEN items[j] ELSE items[j + 1]]

\* ------------------------------------------------------------------ models
\* Product.get_final_price(sku)
get_final_price(product, sku) ==
    IF sku.price_adjustment # 0
    THEN product.base_price + sku.price_adjustment
    ELSE product.base_price

\* SKU.is_available()
is_available(S, sku_id) ==
    /\ S.skus[sku_id].inventory > 0
    /\ S.products[S.skus[sku_id].product_id].available

\* Faulty variant of Cart_add_item: the quantity of an existing line is
\* overwritten.
Cart_add_item_overwriting(items, sku_id, quantity) ==
    LET i == first_item(items, sku_id)
    IN IF i # 0
       THEN [items EXCEPT ![i].quantity = quantity]
       ELSE Append(items, [sku_id |-> sku_id, quantity |-> quantity])

\* Cart.add_item(sku, quantity): sums onto an existing line, else appends.
Cart_add_item(items, sku_id, quantity) ==
    LET i == first_item(items, sku_id)
    IN IF i # 0
       THEN [items EXCEPT ![i].quantity = @ + quantity]
       ELSE Append(items, [sku_id |-> sku_id, quantity |-> quantity])

\* Cart.remove_item(sku_id): deletes the first matching line.
Cart_remove_item(items, sku_id) ==
    LET i == first_item(items, sku_id)
    IN IF i # 0 THEN RemoveAt(items, i) ELSE items

\* Cart.clear()
Cart_clear(items) == <<>>

\* Order.items: the OrderItem rows of an order, as the relationship loads them.
Order_items(S, order_id) ==
    SelectSeq(S.order_items, LAMBDA it : it.order_id = order_id)

\* Order.calculate_total()
calculate_total(S, order_id) == SumLineTotals(Order_items(S, order_id))

\* Faulty variant of line_price: the SKU's price adjustment is left out.
line_price_base_only(S, item) ==
    S.products[S.skus[item.sku_id].product_id].base_price * item.quantity

\* What one cart item adds to the total in Cart.get_total_price: the final
\* price of its SKU times its quantity, nothing when the SKU or its product is
\* missing.
line_price(S, item) ==
    LET sku == S.skus[item.sku_id]
        product == S.products[sku.product_id]
    IN IF sku.exists /\ product.exists
       THEN get_final_price(product, sku) * item.quantity
       ELSE 0

\* Cart.get_total_price(): the loop over self.items.
RECURSIVE get_total_price(_, _)
get_total_price(S, items) ==
    IF items = <<>> THEN 0 ELSE line_price(S, Head(items)) + get_total_price(S, Tail(items))

\* CartController.calculate_cart_total(cart)
calculate_cart_total(S, c) == get_total_price(S, S.carts[c])

\* db.session.commit(): the session's rows become the persisted rows.
Commit(S) == db' = S /\ sess' = S

\* db.session.rollback(): the pending changes are discarded.
Rollback == db' = db /\ sess' = db

\* ------------------------------------------------------------------ cart
\* Faulty variant of add_item_check: the stock comparison is <= instead of <,
\* so asking for exactly the stock is refused.
add_item_check_strict(S, sku_id, quantity) ==
    IF ~S.skus[sku_id].exists THEN "NotFound"
    ELSE IF ~is_available(S, sku_id) THEN "Unavailable"
    ELSE IF S.skus[sku_id].inventory <= quantity THEN "InsufficientInventory"
    ELSE "ok"

\* CartController.add_item_to_cart(cart, sku_id, quantity): the outcome.
add_item_check(S, sku_id, quantity) ==
    IF ~S.skus[sku_id].exists THEN "NotFound"
    ELSE IF ~is_available(S, sku_id) THEN "Unavailable"
    ELSE IF S.skus[sku_id].inventory < quantity THEN "InsufficientInventory"
    ELSE "ok"

add_item_to_cart(c, sku_id, quantity) ==
    LET r == add_item_check(sess, sku_id, quantity)
        items == Cart_add_item(sess.carts[c], sku_id, quantity)
    IN /\ last' = [op |-> "add_item_to_cart", cart |-> c, sku_id |-> sku_id,
                   quantity |-> quantity, result |-> r]
       /\ IF r = "ok"
          THEN /\ \A i \in 1 .. Len(items) : items[i].quantity <= MaxLine
               /\ \A i \in 1 .. Len(items) : items[i].quantity >= -1
               /\ Commit([sess EXCEPT !.carts[c] = items])
          ELSE UNCHANGED <<db, sess>>
       /\ UNCHANGED <<current_user, initial_inventory, txn>>

\* CartController.remove_item_from_cart(cart, sku_id)
remove_item_from_cart(c, sku_id) ==
    /\ last' = [op |-> "remove_item_from_cart", cart |-> c, sku_id |-> sku_id,
                result |-> IF first_item(sess.carts[c], sku_id) # 0 THEN "ok" ELSE "NotInCart"]
    /\ Commit([sess EXCEPT !.carts[c] = Cart_remove_item(@, sku_id)])
    /\ UNCHANGED <<current_user, initial_inventory, txn>>

\* Faulty variant of update_item_check: the stock is not looked at.
update_item_check_no_stock(S, c, sku_id, quantity) ==
    IF quantity <= 0 THEN "removed"
    ELSE IF first_item(S.carts[c], sku_id) = 0 THEN "NotInCart"
    ELSE "ok"

\* CartController.update_item_quantity(cart, sku_id, quantity): the outcome.
update_item_check(S, c, sku_id, quantity) ==
    IF quantity <= 0 THEN "removed"
    ELSE IF first_item(S.carts[c], sku_id) = 0 THEN "NotInCart"
    ELSE IF S.skus[sku_id].exists /\ S.skus[sku_id].inventory < quantity
         THEN "InsufficientInventory"
    ELSE "ok"

update_item_quantity(c, sku_id, quantity) ==
    LET r == update_item_check(sess, c, sku_id, quantity)
        i == first_item(sess.carts[c], sku_id)
    IN /\ last' = [op |-> "update_item_quantity", cart |-> c, sku_id |-> sku_id,
                   quantity |-> quantity, result |-> r]
       /\ CASE r = "removed" ->
                 Commit([sess EXCEPT !.carts[c] = Cart_remove_item(@, sku_id)])
            [] r = "ok" ->
                 Commit([sess EXCEPT !.carts[c][i].quantity = quantity])
            [] OTHER -> UNCHANGED <<db, sess>>
       /\ UNCHANGED <<current_user, initial_inventory, txn>>

\* CartController.clear_cart(cart)
clear_cart(c) ==
    /\ last' = [op |-> "clear_cart", cart |-> c, result |-> "ok"]
    /\ Commit([sess EXCEPT !.carts[c] = Cart_clear(@)])
    /\ UNCHANGED <<current_user, initial_inventory, txn>>

\* ------------------------------------------------------------------ orders
\* Faulty variant of insufficient_inventory: off by one.
insufficient_inventory_off_by_one(inventory, quantity) == inventory + 1 < quantity

\* The stock check of one cart line (order_controller.py, line 65).
insufficient_inventory(inventory, quantity) == inventory < quantity

\* Faulty variant of reserve: the stock is not taken.
reserve_nothing(inventory, quantity) == inventory

\* The stock reservation of one cart line: sku.inventory -= quantity.
reserve(inventory, quantity) == inventory - quantity

\* OrderItem(...) as create_order_from_cart builds it: the price is read now.
new_order_item(order_id, sku_id, sku, product, quantity) ==
    LET unit_price == get_final_price(product, sku)
    IN [order_id |-> order_id, product_id |-> sku.product_id, sku_id |-> sku_id,
        quantity |-> quantity, unit_price |-> unit_price,
        line_total |-> unit_price * quantity]

\* The loop over cart.items of create_order_from_cart, from line i on: the
\* session after the loop stopped, and why it stopped.
RECURSIVE order_lines(_, _, _, _)
order_lines(S, order_id, items, i) ==
    IF i > Len(items) THEN [S |-> S, result |-> "ok"]
    ELSE LET cart_item == items[i]
             sku == S.skus[cart_item.sku_id]
             product == S.products[sku.product_id]
         IN IF ~sku.exists \/ ~product.exists
            THEN [S |-> S, result |-> "InvalidLine"]
            ELSE IF ~product.available
            THEN [S |-> S, result |-> "ProductUnavailable"]
            ELSE IF insufficient_inventory(sku.inventory, cart_item.quantity)
            THEN [S |-> S, result |-> "InsufficientInventory"]
            ELSE order_lines(
                    [S EXCEPT !.order_items =
                                  Append(@, new_order_item(order_id, cart_item.sku_id, sku,
                                                           product, cart_item.quantity)),
                              !.skus[cart_item.sku_id].inventory =
                                  reserve(@, cart_item.quantity)],
                    order_id, items, i + 1)

\* Order(customer_id, status='pending', total_amount=0), added and flushed.
new_order(customer_id) ==
    [customer_id |-> customer_id, status |-> "pending", total_amount |-> 0]

\* The call follows a create_order_from_cart of the same customer that stopped
\* between its two commits.
after_crash(c) ==
    /\ last.op = "create_order_from_cart"
    /\ last.result = "Crashed"
    /\ last.customer = c

\* OrderController.create_order_from_cart(customer, cart), cart being the
\* customer's active cart.  A ValueError leaves the session as it is; the
\* success path commits the order, clears the cart and commits again.
create_order_from_cart(c) ==
    LET items == sess.carts[c]
        order_id == Len(sess.orders) + 1
        S1 == [sess EXCEPT !.orders = Append(@, new_order(c))]
        R == order_lines(S1, order_id, items, 1)
        S2 == [R.S EXCEPT !.orders[order_id].total_amount = calculate_total(R.S, order_id)]
        S3 == [S2 EXCEPT !.carts[c] = Cart_clear(@)]
    IN /\ UNCHANGED <<current_user, initial_inventory, txn>>
       /\ IF items = <<>>
          THEN /\ last' = [op |-> "create_order_from_cart", customer |-> c,
                           order_id |-> 0, result |-> "EmptyCart", retry |-> after_crash(c)]
               /\ UNCHANGED <<db, sess>>
          ELSE /\ Len(sess.orders) < MaxOrders
               /\ last' = [op |-> "create_order_from_cart", customer |-> c,
                           order_id |-> order_id, result |-> R.result,
                           retry |-> after_crash(c)]
               /\ IF R.result = "ok"
                  THEN Commit(S3)
                  ELSE db' = db /\ sess' = R.S

\* Faulty variant of amount_mismatch: only an underpayment is refused.
amount_too_low(amount, total_amount) == amount < total_amount

\* The amount check of attach_payment_record.
amount_mismatch(amount, total_amount) == amount # total_amount

\* Faulty variant of payment_recorded: order_id is not unique in
\* payment_records.
payment_never_recorded(S, order_id) == FALSE

\* payment_records.order_id is unique: whether storing a record for order_id
\* violates the constraint.
payment_recorded(S, order_id) ==
    \E i \in 1 .. Len(S.payment_records) : S.payment_records[i].order_id = order_id

\* Faulty variant of status_after_payment: only a pending order becomes paid.
status_after_payment_if_pending(status) ==
    IF status = "pending" THEN "paid" ELSE status

\* The status attach_payment_record gives an order whose status was `status`:
\* order.status = 'paid', without looking at the status.
status_after_payment(status) == "paid"

\* Faulty variant of persisted_at_crash: order and cleared cart are one commit.
persisted_at_crash_atomic(order_committed, cart_cleared) == cart_cleared

\* What is persisted when create_order_from_cart stops after its first commit
\* (the order) and before its second (the cleared cart).
persisted_at_crash(order_committed, cart_cleared) == order_committed

\* create_order_from_cart on a cart that passes every check, the process
\* stopping between the two commits: the session is lost with the process.
create_order_interrupted(c) ==
    LET items == sess.carts[c]
        order_id == Len(sess.orders) + 1
        S1 == [sess EXCEPT !.orders = Append(@, new_order(c))]
        R == order_lines(S1, order_id, items, 1)
        S2 == [R.S EXCEPT !.orders[order_id].total_amount = calculate_total(R.S, order_id)]
        S3 == [S2 EXCEPT !.carts[c] = Cart_clear(@)]
    IN /\ items # <<>>
       /\ Len(sess.orders) < MaxOrders
       /\ R.result = "ok"
       /\ last' = [op |-> "create_order_from_cart", customer |-> c,
                   order_id |-> order_id, result |-> "Crashed", retry |-> FALSE]
       /\ Commit(persisted_at_crash(S2, S3))
       /\ UNCHANGED <<current_user, initial_inventory, txn>>

\* ---- create_order_from_cart running in a session of its own, step by step
\* Faulty variant of flush_inventory: the decrement is applied to the stored
\* value.
flush_inventory_relative(stored, read, pending) == stored - (read - pending)

\* The UPDATE the commit sends for a SKU whose inventory the checkout changed:
\* the value computed from the inventory that was read.
flush_inventory(stored, read, pending) == pending

\* The customer's cart lines are read, the Order is added and flushed.
begin_order(c) ==
    LET items == db.carts[c]
    IN /\ txn[c].pc = "idle"
       /\ Len(db.orders) + Cardinality({d \in Customers : txn[d].pc # "idle"}) < MaxOrders
       /\ IF items = <<>>
          THEN /\ last' = [op |-> "begin_order", customer |-> c, result |-> "EmptyCart"]
               /\ UNCHANGED txn
          ELSE /\ last' = [op |-> "begin_order", customer |-> c, result |-> "ok"]
               /\ txn' = [txn EXCEPT ![c] = [Idle EXCEPT !.pc = "lines", !.items = items, !.i = 1]]
       /\ UNCHANGED <<db, sess, current_user, initial_inventory>>

\* One iteration of the loop over cart.items: the SKU and its product are
\* loaded (from the store, unless this session holds the SKU already), the
\* checks are made and the stock is taken in the session.  A ValueError ends
\* the checkout and its session.
order_line(c) ==
    LET t == txn[c]
        cart_item == t.items[t.i]
        s == cart_item.sku_id
        inventory == IF s \in t.loaded THEN t.inventory[s] ELSE db.skus[s].inventory
        sku == [db.skus[s] EXCEPT !.inventory = inventory]
        product == db.products[sku.product_id]
        r == IF ~product.available THEN "ProductUnavailable"
             ELSE IF insufficient_inventory(inventory, cart_item.quantity)
             THEN "InsufficientInventory"
             ELSE "ok"
    IN /\ t.pc = "lines"
       /\ t.i <= Len(t.items)
       /\ last' = [op |-> "order_line", customer |-> c, sku_id |-> s,
                   quantity |-> cart_item.quantity, read |-> inventory, result |-> r]
       /\ IF r = "ok"
          THEN txn' = [txn EXCEPT
                          ![c].i = @ + 1,
                          ![c].loaded = @ \cup {s},
                          ![c].read[s] = IF s \in t.loaded THEN @ ELSE inventory,
                          ![c].inventory[s] = reserve(inventory, cart_item.quantity),
                          ![c].order_items =
                              Append(@, new_order_item(0, s, sku, product, cart_item.quantity))]
          ELSE txn' = [txn EXCEPT ![c] = Idle]
       /\ UNCHANGED <<db, sess, current_user, initial_inventory>>

\* calculate_total and the two commits: the order, its items and the
\* inventory of the SKUs it took stock from are written, then the cart is
\* cleared.
commit_order(c) ==
    LET t == txn[c]
        order_id == Len(db.orders) + 1
        items == [i \in 1 .. Len(t.order_items) |->
                     [t.order_items[i] EXCEPT !.order_id = order_id]]
        order == [new_order(c) EXCEPT !.total_amount = SumLineTotals(items)]
        S == [db EXCEPT
                 !.orders = Append(@, order),
                 !.order_items = @ \o items,
                 !.skus = [s \in SKUs |->
                              IF s \in t.loaded
                              THEN [db.skus[s] EXCEPT !.inventory =
                                       flush_inventory(@, t.read[s], t.inventory[s])]
                              ELSE db.skus[s]],
                 !.carts[c] = Cart_clear(@)]
    IN /\ t.pc = "lines"
       /\ t.i > Len(t.items)
       /\ last' = [op |-> "commit_order", customer |-> c, order_id |-> order_id,
                   result |-> "ok"]
       /\ db' = S
       /\ sess' = S
       /\ txn' = [txn EXCEPT ![c] = Idle]
       /\ UNCHANGED <<current_user, initial_inventory>>

\* OrderController.attach_payment_record(order, amount, ...)
attach_payment_record(order_id, amount) ==
    /\ order_id \in 1 .. Len(sess.orders)
    /\ UNCHANGED <<current_user, initial_inventory, txn>>
    /\ IF amount_mismatch(amount, sess.orders[order_id].total_amount)
       THEN /\ last' = [op |-> "attach_payment_record", order_id |-> order_id,
                        amount |-> amount, result |-> "AmountMismatch"]
            /\ UNCHANGED <<db, sess>>
       ELSE IF payment_recorded(sess, order_id)
       THEN \* the commit fails on the unique constraint and rolls back
            /\ last' = [op |-> "attach_payment_record", order_id |-> order_id,
                        amount |-> amount, result |-> "Failed"]
            /\ Rollback
       ELSE /\ last' = [op |-> "attach_payment_record", order_id |-> order_id,
                        amount |-> amount, result |-> "ok",
                        status_before |-> sess.orders[order_id].status]
            /\ Commit([sess EXCEPT
                          !.payment_records =
                              Append(@, [order_id |-> order_id, amount |-> amount]),
                          !.orders[order_id].status = status_after_payment(@)])

\* Faulty variant of set_status: cancelling an order releases the stock of its
\* items.
set_status_releasing_stock(S, order_id, new_status) ==
    LET items == Order_items(S, order_id)
        released(s) ==
            LET units[i \in 0 .. Len(items)] ==
                    IF i = 0 THEN 0
                    ELSE units[i - 1]
                         + (IF items[i].sku_id = s THEN items[i].quantity ELSE 0)
            IN units[Len(items)]
    IN [S EXCEPT
          !.orders[order_id].status = new_status,
          !.skus = [s \in SKUs |->
                       IF new_status = "cancelled"
                       THEN [S.skus[s] EXCEPT !.inventory = @ + released(s)]
                       ELSE S.skus[s]]]

\* The rows update_order_status writes: order.status = new_status. No SKU is
\* touched; SKU.release_stock has no caller.
set_status(S, order_id, new_status) ==
    [S EXCEPT !.orders[order_id].status = new_status]

\* OrderController.update_order_status(order_id, new_status)
update_order_status(order_id, new_status) ==
    /\ UNCHANGED <<current_user, initial_inventory, txn>>
    /\ IF new_status \notin valid_statuses
       THEN /\ last' = [op |-> "update_order_status", order_id |-> order_id,
                        status |-> new_status, result |-> "InvalidStatus"]
            /\ UNCHANGED <<db, sess>>
       ELSE IF order_id \notin 1 .. Len(sess.orders)
       THEN /\ last' = [op |-> "update_order_status", order_id |-> order_id,
                        status |-> new_status, result |-> "NotFound"]
            /\ UNCHANGED <<db, sess>>
       ELSE /\ last' = [op |-> "update_order_status", order_id |-> order_id,
                        status |-> new_status, result |-> "ok"]
            /\ Commit(set_status(sess, order_id, new_status))

\* ------------------------------------------------------------------ catalog
DeletedProduct ==
    [exists |-> FALSE, vendor_id |-> NoUser, base_price |-> 0, available |-> FALSE]

DeletedSku(product_id) ==
    [exists |-> FALSE, product_id |-> product_id, inventory |-> 0, price_adjustment |-> 0]

\* Faulty variant of update_product_fields: the new base price is also written
\* through to the order items of the product.
update_product_repricing(S, p, base_price, available) ==
    LET reprice(it) ==
            IF it.product_id = p
            THEN [it EXCEPT !.unit_price = base_price,
                            !.line_total = base_price * it.quantity]
            ELSE it
    IN [S EXCEPT !.products[p].base_price = base_price,
                 !.products[p].available = available,
                 !.order_items = [i \in 1 .. Len(S.order_items) |-> reprice(S.order_items[i])]]

\* The rows ProductController.update_product(product_id, base_price=...,
\* available=...) writes: the product's own fields.
update_product_fields(S, p, base_price, available) ==
    [S EXCEPT !.products[p].base_price = base_price, !.products[p].available = available]

update_product(p, base_price, available) ==
    /\ UNCHANGED <<current_user, initial_inventory, txn>>
    /\ IF ~sess.products[p].exists
       THEN /\ last' = [op |-> "update_product", product_id |-> p, result |-> "NotFound"]
            /\ UNCHANGED <<db, sess>>
       ELSE /\ last' = [op |-> "update_product", product_id |-> p, result |-> "ok"]
            /\ Commit(update_product_fields(sess, p, base_price, available))

\* The rows ProductController.update_sku(sku_id, inventory=...,
\* price_adjustment=...) writes: the SKU's own fields.
update_sku_fields(S, s, inventory, price_adjustment) ==
    [S EXCEPT !.skus[s].inventory = inventory, !.skus[s].price_adjustment = price_adjustment]

update_sku(s, inventory, price_adjustment) ==
    /\ UNCHANGED <<current_user, initial_inventory, txn>>
    /\ IF ~sess.skus[s].exists
       THEN /\ last' = [op |-> "update_sku", sku_id |-> s, result |-> "NotFound"]
            /\ UNCHANGED <<db, sess>>
       ELSE /\ last' = [op |-> "update_sku", sku_id |-> s, result |-> "ok"]
            /\ Commit(update_sku_fields(sess, s, inventory, price_adjustment))

\* Faulty variant of delete_cascade: only Product.skus cascades; the cart items
\* and order items of the product stay.
delete_skus_only(S, p) ==
    [S EXCEPT
       !.products[p] = DeletedProduct,
       !.skus = [s \in SKUs |-> IF S.skus[s].product_id = p THEN DeletedSku(p) ELSE S.skus[s]]]

\* db.session.delete(product) with the cascades of the relationships:
\* Product.skus, Product.order_items, Product.reviews and, through the SKUs,
\* SKU.cart_items.
delete_cascade(S, p) ==
    LET gone(s) == S.skus[s].product_id = p
    IN [S EXCEPT
          !.products[p] = DeletedProduct,
          !.skus = [s \in SKUs |-> IF gone(s) THEN DeletedSku(p) ELSE S.skus[s]],
          !.carts = [c \in DOMAIN S.carts |->
                        SelectSeq(S.carts[c], LAMBDA it : ~gone(it.sku_id))],
          !.order_items = SelectSeq(S.order_items, LAMBDA it : it.product_id # p),
          !.reviews = [i \in 1 .. Len(S.reviews) |->
                          IF S.reviews[i].product_id = p
                          THEN [S.reviews[i] EXCEPT !.exists = FALSE]
                          ELSE S.reviews[i]]]

\* ProductController.delete_product(product_id)
delete_product(p) ==
    /\ UNCHANGED <<current_user, initial_inventory, txn>>
    /\ IF ~sess.products[p].exists
       THEN /\ last' = [op |-> "delete_product", product_id |-> p, result |-> "NotFound"]
            /\ UNCHANGED <<db, sess>>
       ELSE /\ last' = [op |-> "delete_product", product_id |-> p, result |-> "ok"]
            /\ Commit(delete_cascade(sess, p))

\* The scoped session is removed when an application context ends: what was
\* not committed is gone.
session_remove ==
    /\ sess # db
    /\ sess' = db
    /\ last' = [op |-> "session_remove", result |-> "ok"]
    /\ UNCHANGED <<db, current_user, initial_inventory, txn>>

\* ------------------------------------------------------------------ reviews
\* Review.query.filter_by(customer_id, product_id).first(): the review's id (its
\* position in the table), 0 when there is none.
existing_review(S, customer_id, product_id) ==
    LET found == {i \in 1 .. Len(S.reviews) :
                     /\ S.reviews[i].exists
                     /\ S.reviews[i].customer_id = customer_id
                     /\ S.reviews[i].product_id = product_id}
    IN IF found = {} THEN 0 ELSE CHOOSE i \in found : \A j \in found : i <= j

\* Faulty variant of invalid_rating: only the lower end is checked.
invalid_rating_below_only(rating) == rating < 1

\* The rating check of add_review and update_review: rating < 1 or rating > 5.
invalid_rating(rating) == rating < 1 \/ rating > 5

\* Faulty variant of add_review_check: an earlier review is not looked for.
add_review_unchecked(S, customer_id, product_id, rating) ==
    IF rating < 1 \/ rating > 5 THEN "InvalidRating" ELSE "ok"

\* ReviewController.add_review(customer, product, rating, comment): the outcome.
add_review_check(S, customer_id, product_id, rating) ==
    IF invalid_rating(rating) THEN "InvalidRating"
    ELSE IF existing_review(S, customer_id, product_id) # 0 THEN "DuplicateReview"
    ELSE "ok"

\* ReviewController.add_review(customer, product, rating, comment)
add_review(customer_id, product_id, rating, comment) ==
    LET r == add_review_check(sess, customer_id, product_id, rating)
    IN /\ sess.products[product_id].exists
       /\ last' = [op |-> "add_review", customer |-> customer_id, product_id |-> product_id,
                   rating |-> rating, review_id |-> IF r = "ok" THEN Len(sess.reviews) + 1 ELSE 0,
                   result |-> r]
       /\ IF r = "ok"
          THEN /\ Len(sess.reviews) < MaxReviews
               /\ Commit([sess EXCEPT !.reviews =
                              Append(@, [exists |-> TRUE, customer_id |-> customer_id,
                                         product_id |-> product_id, rating |-> rating,
                                         comment |-> comment])])
          ELSE UNCHANGED <<db, sess>>
       /\ UNCHANGED <<current_user, initial_inventory, txn>>

\* ReviewController.update_review(review_id, rating, comment), a rating being
\* given.
update_review(review_id, rating, comment) ==
    LET found == review_id \in 1 .. Len(sess.reviews) /\ sess.reviews[review_id].exists
        r == IF ~found THEN "NotFound"
             ELSE IF invalid_rating(rating) THEN "InvalidRating"
             ELSE "ok"
    IN /\ last' = [op |-> "update_review", review_id |-> review_id, rating |-> rating,
                   result |-> r]
       /\ IF r = "ok"
          THEN Commit([sess EXCEPT !.reviews[review_id].rating = rating,
                                   !.reviews[review_id].comment =
                                       IF comment # NoComment THEN comment ELSE @])
          ELSE UNCHANGED <<db, sess>>
       /\ UNCHANGED <<current_user, initial_inventory, txn>>

\* ReviewController.delete_review(review_id)
delete_review(review_id) ==
    LET found == review_id \in 1 .. Len(sess.reviews) /\ sess.reviews[review_id].exists
    IN /\ last' = [op |-> "delete_review", review_id |-> review_id,
                   result |-> IF found THEN "ok" ELSE "NotFound"]
       /\ IF found
          THEN Commit([sess EXCEPT !.reviews[review_id].exists = FALSE])
          ELSE UNCHANGED <<db, sess>>
       /\ UNCHANGED <<current_user, initial_inventory, txn>>

\* ------------------------------------------------------------------ accounts
\* generate_password_hash / check_password_hash: one-way, compared by hash.
generate_password_hash(password) == <<"hash", password>>

check_password(user, password) == user.password_hash = generate_password_hash(password)

\* User.query.filter_by(email=email).first(): the account's id, NoUser if none.
user_by_email(S, email) ==
    IF \E u \in 1 .. Len(S.users) : S.users[u].email = email
    THEN CHOOSE u \in 1 .. Len(S.users) : S.users[u].email = email
    ELSE NoUser

\* Customer(...) as register_customer builds it; suspended is the column default.
new_customer(email, password) ==
    [role |-> "customer", name |-> RegisteredName, email |-> email,
     password_hash |-> generate_password_hash(password),
     approved |-> TRUE, suspended |-> FALSE]

\* Faulty variant of new_vendor: approved keeps the column default of users.
new_vendor_column_default(email, password) ==
    [role |-> "vendor", name |-> RegisteredName, email |-> email,
     password_hash |-> generate_password_hash(password),
     approved |-> TRUE, suspended |-> FALSE]

\* Vendor(...) as register_vendor builds it (Vendor.__init__, then approved = False).
new_vendor(email, password) ==
    [role |-> "vendor", name |-> RegisteredName, email |-> email,
     password_hash |-> generate_password_hash(password),
     approved |-> FALSE, suspended |-> FALSE]

\* Admin(...): Admin.__init__ sets approved = True.
new_admin(email, password) ==
    [role |-> "admin", name |-> RegisteredName, email |-> email,
     password_hash |-> generate_password_hash(password),
     approved |-> TRUE, suspended |-> FALSE]

\* AuthController.register_customer(name, email, password)
register_customer(email, password) ==
    /\ Len(sess.users) < MaxUsers
    /\ UNCHANGED <<current_user, initial_inventory, txn>>
    /\ IF user_by_email(sess, email) # NoUser
       THEN /\ last' = [op |-> "register_customer", user_id |-> NoUser, email |-> email,
                        result |-> "DuplicateEmail"]
            /\ UNCHANGED <<db, sess>>
       ELSE /\ last' = [op |-> "register_customer", user_id |-> Len(sess.users) + 1,
                        email |-> email, result |-> "ok"]
            /\ Commit([sess EXCEPT !.users = Append(@, new_customer(email, password))])

\* AuthController.register_vendor(name, email, password, business_name, tax_id)
register_vendor(email, password) ==
    /\ Len(sess.users) < MaxUsers
    /\ UNCHANGED <<current_user, initial_inventory, txn>>
    /\ IF user_by_email(sess, email) # NoUser
       THEN /\ last' = [op |-> "register_vendor", user_id |-> NoUser, email |-> email,
                        result |-> "DuplicateEmail"]
            /\ UNCHANGED <<db, sess>>
       ELSE /\ last' = [op |-> "register_vendor", user_id |-> Len(sess.users) + 1,
                        email |-> email, result |-> "ok"]
            /\ Commit([sess EXCEPT !.users = Append(@, new_vendor(email, password))])

\* An Admin row is constructed and stored; users.email is unique, so an email
\* in use cannot be stored.
create_admin(email, password) ==
    /\ Len(sess.users) < MaxUsers
    /\ user_by_email(sess, email) = NoUser
    /\ last' = [op |-> "create_admin", user_id |-> Len(sess.users) + 1, result |-> "ok"]
    /\ Commit([sess EXCEPT !.users = Append(@, new_admin(email, password))])
    /\ UNCHANGED <<current_user, initial_inventory, txn>>

\* AuthController.authenticate_user(email, password): the account, or NoUser.
authenticate_user(S, email, password) ==
    LET u == user_by_email(S, email)
    IN IF u # NoUser /\ check_password(S.users[u], password) THEN u ELSE NoUser

\* Faulty variant of login_user_account: the approval check comes first.
login_approval_first(user) ==
    IF user.role = "vendor" /\ ~user.approved THEN "PendingApproval"
    ELSE IF user.suspended THEN "AccountSuspended"
    ELSE "ok"

\* AuthController.login_user_account(user): the outcome.
login_user_account(user) ==
    IF user.suspended THEN "AccountSuspended"
    ELSE IF user.role = "vendor" /\ ~user.approved THEN "PendingApproval"
    ELSE "ok"

\* The login route for a visitor who is not logged in: authenticate_user, then
\* login_user_account.
login(email, password) ==
    LET u == authenticate_user(sess, email, password)
        r == IF u = NoUser THEN "InvalidCredentials" ELSE login_user_account(sess.users[u])
    IN /\ current_user = NoUser
       /\ last' = [op |-> "login", email |-> email, password |-> password,
                   user_id |-> u, result |-> r]
       /\ current_user' = IF r = "ok" THEN u ELSE current_user
       /\ UNCHANGED <<db, sess, initial_inventory, txn>>

\* AuthController.logout_current_user()
logout_current_user ==
    /\ current_user # NoUser
    /\ current_user' = NoUser
    /\ last' = [op |-> "logout_current_user", result |-> "ok"]
    /\ UNCHANGED <<db, sess, initial_inventory, txn>>

\* Faulty variant of approve: a suspension is lifted but the vendor stays
\* unapproved.
approve_nothing(user) == [user EXCEPT !.suspended = FALSE]

\* The fields AdminController.approve_vendor sets.
approve(user) == [user EXCEPT !.approved = TRUE, !.suspended = FALSE]

\* AdminController.approve_vendor(vendor_id)
approve_vendor(vendor_id) ==
    /\ UNCHANGED <<current_user, initial_inventory, txn>>
    /\ IF vendor_id \notin 1 .. Len(sess.users) \/ sess.users[vendor_id].role # "vendor"
       THEN /\ last' = [op |-> "approve_vendor", user_id |-> vendor_id, result |-> "NotFound"]
            /\ UNCHANGED <<db, sess>>
       ELSE /\ last' = [op |-> "approve_vendor", user_id |-> vendor_id, result |-> "ok",
                        suspended_before |-> sess.users[vendor_id].suspended]
            /\ Commit([sess EXCEPT !.users[vendor_id] = approve(@)])

\* Faulty variant of with_suspended: a suspension also withdraws the approval
\* and lifting it grants the approval.
with_suspended_and_approval(user, flag) ==
    [user EXCEPT !.suspended = flag, !.approved = ~flag]

\* The field suspend_user and unsuspend_user set: user.suspended = flag.
with_suspended(user, flag) == [user EXCEPT !.suspended = flag]

\* AdminController.suspend_user(user_id) / unsuspend_user(user_id)
set_suspended(op, user_id, flag) ==
    /\ UNCHANGED <<current_user, initial_inventory, txn>>
    /\ IF user_id \notin 1 .. Len(sess.users)
       THEN /\ last' = [op |-> op, user_id |-> user_id, result |-> "NotFound"]
            /\ UNCHANGED <<db, sess>>
       ELSE /\ last' = [op |-> op, user_id |-> user_id, result |-> "ok"]
            /\ Commit([sess EXCEPT !.users[user_id] = with_suspended(@, flag)])

suspend_user(user_id) == set_suspended("suspend_user", user_id, TRUE)

unsuspend_user(user_id) == set_suspended("unsuspend_user", user_id, FALSE)

\* Faulty variant of update_profile_check: the email is not looked up.
update_profile_unchecked(S, customer, email) == "ok"

\* CustomerController.update_profile(customer, name, email): the outcome of the
\* email check, read from the session S in which the name is already set.
update_profile_check(S, customer, email) ==
    IF /\ email # NoEmail
       /\ user_by_email(S, email) # NoUser
       /\ user_by_email(S, email) # customer
    THEN "EmailInUse"
    ELSE "ok"

\* CustomerController.update_profile(customer, name=None, email=None).  The
\* name is assigned before the email is checked; the ValueError of the check
\* leaves the session as it is.
update_profile(customer, name, email) ==
    LET S1 == IF name # NoName THEN [sess EXCEPT !.users[customer].name = name] ELSE sess
        r == update_profile_check(S1, customer, email)
        S2 == IF email # NoEmail THEN [S1 EXCEPT !.users[customer].email = email] ELSE S1
    IN /\ customer \in 1 .. Len(sess.users)
       /\ sess.users[customer].role = "customer"
       /\ last' = [op |-> "update_profile", user_id |-> customer, name |-> name,
                   email |-> email, result |-> r]
       /\ IF r = "ok" THEN Commit(S2) ELSE db' = db /\ sess' = S1
       /\ UNCHANGED <<current_user, initial_inventory, txn>>

\* Two add_review requests, each in the session of its own request; txn[r]
\* holds what request r has read so far.
Requests == 1 .. 2

\* The first half of add_review in request r: the rating check and the
\* existence query, answered from the persisted rows.
add_review_query(r, customer_id, product_id, rating) ==
    LET result == add_review_check(db, customer_id, product_id, rating)
    IN /\ txn[r].pc = "idle"
       /\ db.products[product_id].exists
       /\ IF result = "ok"
          THEN /\ last' = [op |-> "add_review_query", request |-> r, result |-> "ok"]
               /\ txn' = [txn EXCEPT ![r] = [pc |-> "add_review", customer_id |-> customer_id,
                                             product_id |-> product_id, rating |-> rating]]
          ELSE /\ last' = [op |-> "add_review", request |-> r, result |-> result]
               /\ UNCHANGED txn
       /\ UNCHANGED <<db, sess, current_user, initial_inventory>>

\* The second half of add_review in request r: db.session.add(review) and the
\* commit.  The reviews table has no unique constraint over (customer_id,
\* product_id), so the INSERT is accepted whatever rows are there by now.
add_review_commit(r) ==
    /\ txn[r].pc = "add_review"
    /\ Len(db.reviews) < MaxReviews
    /\ db' = [db EXCEPT !.reviews =
                  Append(@, [exists |-> TRUE, customer_id |-> txn[r].customer_id,
                             product_id |-> txn[r].product_id, rating |-> txn[r].rating,
                             comment |-> FirstComment])]
    /\ sess' = db'
    /\ txn' = [txn EXCEPT ![r] = Idle]
    /\ last' = [op |-> "add_review", request |-> r, result |-> "ok"]
    /\ UNCHANGED <<current_user, initial_inventory>>

\* ------------------------------------------------------------------ role-gated routes
\* Faulty variant of role_required: any authenticated requester is admitted.
role_required_any_role(S, required_role, user_id) ==
    IF user_id = NoUser THEN "RedirectLogin" ELSE "admitted"

\* role_required(required_role) applied to the requester current_user: where
\* the request goes.
role_required(S, required_role, user_id) ==
    IF user_id = NoUser THEN "RedirectLogin"
    ELSE IF S.users[user_id].role # required_role THEN "AccessDenied"
    ELSE "admitted"

\* decorated_function: the body runs for an admitted requester, every other
\* requester is redirected.
decorated_function(required_role, route, body) ==
    LET gate == role_required(sess, required_role, current_user)
    IN IF gate = "admitted"
       THEN body
       ELSE /\ last' = [op |-> "redirect", route |-> route,
                        required_role |-> required_role, result |-> gate]
            /\ UNCHANGED <<db, sess, current_user, initial_inventory, txn>>

\* The admin routes /vendors/<id>/approve, /users/<id>/suspend and
\* /users/<id>/reactivate.
route_approve_vendor(vendor_id) ==
    decorated_function("admin", "approve_vendor", approve_vendor(vendor_id))

route_suspend_user(user_id) ==
    decorated_function("admin", "suspend_user", suspend_user(user_id))

route_reactivate_user(user_id) ==
    decorated_function("admin", "reactivate_user", unsuspend_user(user_id))

\* The customer route /product/<id>/review.
submit_review(product_id, rating, comment) ==
    IF ~sess.products[product_id].exists \/ rating < 1 \/ rating > 5
    THEN /\ last' = [op |-> "submit_review", product_id |-> product_id,
                     result |-> IF ~sess.products[product_id].exists
                                THEN "NotFound" ELSE "InvalidRating"]
         /\ UNCHANGED <<db, sess, current_user, initial_inventory, txn>>
    ELSE add_review(current_user, product_id, rating, comment)

route_submit_review(product_id, rating, comment) ==
    decorated_function("customer", "submit_review", submit_review(product_id, rating, comment))

\* Product(vendor_id=vendor.id, ...) as create_product builds it for the route
\* (available=True).
new_product(vendor_id, base_price) ==
    [exists |-> TRUE, vendor_id |-> vendor_id, base_price |-> base_price, available |-> TRUE]

\* SKU(product_id=product.id, ...) as add_sku builds it.
new_sku(product_id, inventory, price_adjustment) ==
    [exists |-> TRUE, product_id |-> product_id, inventory |-> inventory,
     price_adjustment |-> price_adjustment]

\* The vendor route /products/new (POST): ProductController.create_product for
\* the requester, then ProductController.add_sku for the new product.
create_product(p, base_price, inventory) ==
    /\ ~sess.products[p].exists
    /\ last' = [op |-> "create_product", product_id |-> p, vendor_id |-> current_user,
                result |-> "ok"]
    /\ Commit([sess EXCEPT
                  !.products[p] = new_product(current_user, base_price),
                  !.skus = [s \in SKUs |->
                               IF sess.skus[s].product_id = p
                               THEN new_sku(p, inventory, 0)
                               ELSE sess.skus[s]]])
    /\ UNCHANGED <<current_user, initial_inventory, txn>>

route_create_product(p, base_price, inventory) ==
    decorated_function("vendor", "create_product", create_product(p, base_price, inventory))

\* Faulty variant of owns_product: every vendor passes.
owns_product_any_vendor(S, p, user_id) == TRUE

\* The ownership check of the vendor routes: product.vendor_id != current_user.id
\* is answered with 'Unauthorized'.
owns_product(S, p, user_id) == S.products[p].vendor_id = user_id

\* What the vendor routes edit_product and delete_product do before the body:
\* Product.query.get_or_404(product_id), then the ownership check.
vendor_scoped(route, p, body) ==
    IF ~sess.products[p].exists \/ ~owns_product(sess, p, current_user)
    THEN /\ last' = [op |-> route, product_id |-> p,
                     result |-> IF ~sess.products[p].exists
                                THEN "NotFound" ELSE "Unauthorized"]
         /\ UNCHANGED <<db, sess, current_user, initial_inventory, txn>>
    ELSE body

\* The vendor route /products/<product_id>/edit (POST).
route_edit_product(p, base_price, available) ==
    decorated_function("vendor", "edit_product",
                       vendor_scoped("edit_product", p, update_product(p, base_price, available)))

\* The vendor route /products/<product_id>/delete.
route_delete_product(p) ==
    decorated_function("vendor", "delete_product",
                       vendor_scoped("vendor_delete_product", p, delete_product(p)))

\* ------------------------------------------------------------------ initial states

NoOp == [op |-> "none", result |-> "ok"]

\* Product.vendor_id of the products of Store: their vendor is not among the
\* accounts the specifications register.
ShopVendor == MaxUsers + 1

\* The store after two customers registered and opened their (empty) carts and
\* a vendor listed two products with one SKU each (create_product, add_sku):
\* p1 costs 2 and has SKU s1, p2 costs 3 and has SKU s2.
Store(inventory, available) ==
    [users |-> <<new_customer(1, "pw1"), new_customer(2, "pw1")>>,
     products |-> [p \in Products |->
                     [exists |-> TRUE, vendor_id |-> ShopVendor,
                      base_price |-> IF p = "p1" THEN 2 ELSE 3,
                      available |-> available[p]]],
     skus |-> [s \in SKUs |->
                 [exists |-> TRUE, product_id |-> IF s = "s1" THEN "p1" ELSE "p2",
                  inventory |-> inventory[s], price_adjustment |-> 0]],
     carts |-> [c \in Customers |-> <<>>],
     orders |-> <<>>,
     order_items |-> <<>>,
     payment_records |-> <<>>,
     reviews |-> <<>>]

InitStore(inventories, availabilities) ==
    /\ \E inventory \in inventories, available \in availabilities :
          db = Store(inventory, available)
    /\ sess = db
    /\ current_user = NoUser
    /\ initial_inventory = [s \in SKUs |-> db.skus[s].inventory]
    /\ txn = [c \in Customers |-> Idle]
    /\ last = NoOp

\* Any stock from 0 to MaxInv; p2 may be off sale.
InitCart ==
    InitStore([SKUs -> 0 .. MaxInv], {a \in [Products -> BOOLEAN] : a["p1"]})

\* s1 has MaxInv units, s2 has one; both products are on sale.
InitShop ==
    InitStore({[s \in SKUs |-> IF s = "s1" THEN MaxInv ELSE 1]}, {[p \in Products |-> TRUE]})

\* No account yet.
InitAuth ==
    /\ db = [Store([s \in SKUs |-> 1], [p \in Products |-> TRUE])
                EXCEPT !.users = <<>>, !.carts = <<>>]
    /\ sess = db
    /\ current_user = NoUser
    /\ initial_inventory = [s \in SKUs |-> db.skus[s].inventory]
    /\ txn = [c \in Customers |-> Idle]
    /\ last = NoOp

\* Two approved vendors and no product yet.
InitVendors ==
    /\ db = [Store([s \in SKUs |-> 0], [p \in Products |-> TRUE])
                EXCEPT !.users = <<approve(new_vendor(1, "pw1")), approve(new_vendor(2, "pw1"))>>,
                       !.carts = <<>>,
                       !.products = [p \in Products |-> DeletedProduct],
                       !.skus = [s \in SKUs |-> DeletedSku(@[s].product_id)]]
    /\ sess = db
    /\ current_user = NoUser
    /\ initial_inventory = [s \in SKUs |-> db.skus[s].inventory]
    /\ txn = [c \in Customers |-> Idle]
    /\ last = NoOp

\* ------------------------------------------------------------------ next-state relations
\* The cart operations of the customers C on the SKUs K with quantity
\* arguments Q.
CartOps(C, K, Q) ==
    \/ \E c \in C, s \in K, q \in Q : add_item_to_cart(c, s, q)
    \/ \E c \in C, s \in K : remove_item_from_cart(c, s)
    \/ \E c \in C, s \in K, q \in Q : update_item_quantity(c, s, q)
    \/ \E c \in C : clear_cart(c)

CartNext == CartOps({1}, SKUs, QtyArgs)

CheckoutNext ==
    \/ CartOps(Customers, {"s1"}, QtyArgs)
    \/ \E c \in Customers : create_order_from_cart(c)
    \/ session_remove

OrderNext ==
    \/ CartOps({1}, SKUs, 0 .. MaxQty)
    \/ create_order_from_cart(1)
    \/ session_remove

PaymentAmounts(order_id) ==
    IF order_id \in 1 .. Len(sess.orders)
    THEN {sess.orders[order_id].total_amount, sess.orders[order_id].total_amount + 1}
    ELSE {0}

PaymentNext ==
    \/ \E q \in 1 .. MaxQty : add_item_to_cart(1, "s1", q)
    \/ create_order_from_cart(1)
    \/ \E o \in 1 .. MaxOrders : \E a \in PaymentAmounts(o) : attach_payment_record(o, a)
    \/ \E o \in 1 .. MaxOrders, st \in valid_statuses \cup {"refunded"} :
          update_order_status(o, st)
    \/ session_remove

\* Orders placed and cancelled while the vendor restocks.
StockNext ==
    \/ \E s \in SKUs : add_item_to_cart(1, s, 1)
    \/ create_order_from_cart(1)
    \/ \E o \in 1 .. MaxOrders : update_order_status(o, "cancelled")
    \/ \E inventory \in {0, MaxInv} :
          update_sku("s2", inventory, sess.skus["s2"].price_adjustment)
    \/ delete_product("p1")
    \/ session_remove

\* Two vendors listing, editing and deleting products.
VendorNext ==
    \/ \E e \in Emails : login(e, "pw1")
    \/ logout_current_user
    \/ \E p \in Products, b \in Prices, inventory \in 1 .. MaxInv :
          route_create_product(p, b, inventory)
    \/ \E p \in Products, b \in Prices, a \in BOOLEAN : route_edit_product(p, b, a)
    \/ \E p \in Products : route_delete_product(p)

\* Customers with a login session sending reviews while an admin, in a
\* session of their own, suspends and reactivates accounts.
SuspendNext ==
    \/ \E e \in Emails : register_customer(e, "pw1")
    \/ \E e \in Emails : login(e, "pw1")
    \/ logout_current_user
    \/ \E u \in 1 .. MaxUsers : suspend_user(u)
    \/ \E u \in 1 .. MaxUsers : unsuspend_user(u)
    \/ \E rating \in {0, 5} : route_submit_review("p1", rating, FirstComment)

\* Review requests running side by side, reviews being deleted in between.
ReviewRaceNext ==
    \/ \E r \in Requests, c \in Customers, p \in Products, rating \in {0, 5} :
          add_review_query(r, c, p, rating)
    \/ \E r \in Requests : add_review_commit(r)
    \/ \E i \in 1 .. MaxReviews : delete_review(i)

\* Customers reviewing products.
ReviewNext ==
    \/ \E c \in Customers, p \in Products, rating \in RatingArgs :
          add_review(c, p, rating, FirstComment)
    \/ \E i \in 1 .. MaxReviews, rating \in RatingArgs, comment \in {NoComment, NewComment} :
          update_review(i, rating, comment)
    \/ \E i \in 1 .. MaxReviews : delete_review(i)

\* Accounts of the three roles sending requests to role-gated routes.
GateNext ==
    \/ \E e \in Emails, pw \in {"pw1"} : register_customer(e, pw)
    \/ \E e \in Emails, pw \in {"pw1"} : register_vendor(e, pw)
    \/ \E e \in Emails, pw \in {"pw1"} : create_admin(e, pw)
    \/ \E e \in Emails, pw \in {"pw1"} : login(e, pw)
    \/ logout_current_user
    \/ \E u \in 1 .. MaxUsers : route_approve_vendor(u)
    \/ \E u \in 1 .. MaxUsers : route_suspend_user(u)
    \/ \E u \in 1 .. MaxUsers : route_reactivate_user(u)
    \/ \E rating \in {0, 5} : route_submit_review("p1", rating, FirstComment)

\* One customer's carts and checkouts, a checkout possibly stopping between
\* its two commits.
CrashNext ==
    \/ CartOps({1}, SKUs, 1 .. MaxQty)
    \/ create_order_from_cart(1)
    \/ create_order_interrupted(1)
    \/ session_remove

\* Two customers whose checkouts of one SKU run side by side.
ConcurrentNext ==
    \/ \E c \in Customers, q \in 1 .. MaxQty :
          txn[c].pc = "idle" /\ add_item_to_cart(c, "s1", q)
    \/ \E c \in Customers : begin_order(c)
    \/ \E c \in Customers : order_line(c)
    \/ \E c \in Customers : commit_order(c)

Next ==
    \/ CartOps({1}, SKUs, {1})
    \/ create_order_from_cart(1)
    \/ session_remove
    \/ \E p \in Products, b \in Prices : update_product(p, b, sess.products[p].available)
    \/ \E a \in BOOLEAN : update_product("p2", sess.products["p2"].base_price, a)
    \/ \E s \in SKUs, adj \in Adjustments : update_sku(s, sess.skus[s].inventory, adj)
    \/ \E p \in Products : delete_product(p)

AuthNext ==
    \/ \E e \in Emails, pw \in Passwords : register_customer(e, pw)
    \/ \E e \in Emails, pw \in Passwords : register_vendor(e, pw)
    \/ \E e \in Emails, pw \in Passwords : create_admin(e, pw)
    \/ \E e \in Emails, pw \in Passwords : login(e, pw)
    \/ logout_current_user
    \/ \E u \in 1 .. MaxUsers : approve_vendor(u)
    \/ \E u \in 1 .. MaxUsers : suspend_user(u)
    \/ \E u \in 1 .. MaxUsers : unsuspend_user(u)

\* Registrations and profile edits.
ProfileNext ==
    \/ \E e \in Emails, pw \in Passwords : register_customer(e, pw)
    \/ \E e \in Emails, pw \in Passwords : register_vendor(e, pw)
    \/ \E u \in 1 .. MaxUsers, n \in {NoName, NewName}, e \in {NoEmail} \cup Emails :
          update_profile(u, n, e)
    \/ session_remove

\* One customer shopping and checking out while the catalog is edited.
Spec == InitShop /\ [][Next]_vars

\* One customer's carts and checkouts with no catalog edit.
SpecOrder == InitShop /\ [][OrderNext]_vars

\* Two customers competing for the stock of one SKU, with no catalog edit.
SpecCheckout == InitShop /\ [][CheckoutNext]_vars

\* One customer's cart operations.
SpecCart == InitCart /\ [][CartNext]_vars

\* Orders being paid and moved through their statuses.
SpecPayment == InitShop /\ [][PaymentNext]_vars

SpecStock == InitShop /\ [][StockNext]_vars

SpecVendor == InitVendors /\ [][VendorNext]_vars

SpecSuspend == InitAuth /\ [][SuspendNext]_vars

SpecReviewRace == InitShop /\ [][ReviewRaceNext]_vars

\* Registration, login and account moderation.
SpecAuth == InitAuth /\ [][AuthNext]_vars

\* Registration and profile edits.
SpecProfile == InitAuth /\ [][ProfileNext]_vars

\* Customers writing, editing and deleting reviews.
SpecReview == InitShop /\ [][ReviewNext]_vars

\* Requests to role-gated routes.
SpecGate == InitAuth /\ [][GateNext]_vars

\* Checkouts that may stop between the order commit and the cart clear.
SpecCrash == InitShop /\ [][CrashNext]_vars

\* Checkouts interleaved step by step.
SpecConcurrent == InitShop /\ [][ConcurrentNext]_vars

\* ------------------------------------------------------------------ properties
RECURSIVE SumQuantity(_)
SumQuantity(items) ==
    IF items = <<>> THEN 0 ELSE Head(items).quantity + SumQuantity(Tail(items))

\* Units of a SKU in the order items of the store S.
UnitsOrdered(S, s) == SumQuantity(SelectSeq(S.order_items, LAMBDA it : it.sku_id = s))

\* C1: when create_order_from_cart fails, the persisted state is what it was
\* before the call, and nothing the failed call left behind (the order header,
\* the items and the inventory decrements of the lines before the failing one)
\* is persisted by the commit of a later operation.  As a property of every
\* step: a failed create_order_from_cart leaves the persisted rows alone, a
\* successful one persists exactly one new order, and no other operation
\* persists a new order or order item or lowers the persisted inventory of a
\* SKU.
C1_FailedOrderPersistsNothing ==
    [][LET create == last'.op = "create_order_from_cart"
           ok == last'.result = "ok"
       IN /\ (create /\ ~ok) => db' = db
          /\ (create /\ ok) => Len(db'.orders) = Len(db.orders) + 1
          /\ ~create =>
                /\ Len(db'.orders) = Len(db.orders)
                /\ Len(db'.order_items) <= Len(db.order_items)
                /\ \A s \in SKUs :
                      db'.skus[s].exists => db'.skus[s].inventory >= db.skus[s].inventory
      ]_vars

\* C2: a successful create_order_from_cart(customer, cart) lowers the inventory
\* of the SKU of every cart line by the line's quantity and leaves the other
\* SKUs' inventory as it was, creates an order with status 'pending' that has
\* one item per cart line with the line's SKU and quantity, and empties the
\* cart.  (The inventory before the call is the one the session reads; after
\* the call the session and the store agree.)
C2_SuccessfulOrder ==
    [][(last'.op = "create_order_from_cart" /\ last'.result = "ok") =>
          LET c == last'.customer
              o == last'.order_id
              lines == sess.carts[c]
              created == Order_items(db', o)
          IN /\ sess' = db'
             /\ \A i \in 1 .. Len(lines) :
                   db'.skus[lines[i].sku_id].inventory =
                       sess.skus[lines[i].sku_id].inventory - lines[i].quantity
             /\ \A s \in SKUs :
                   (\A i \in 1 .. Len(lines) : lines[i].sku_id # s)
                       => db'.skus[s].inventory = sess.skus[s].inventory
             /\ db'.orders[o].status = "pending"
             /\ db'.orders[o].customer_id = c
             /\ Len(created) = Len(lines)
             /\ \A i \in 1 .. Len(lines) :
                   /\ created[i].sku_id = lines[i].sku_id
                   /\ created[i].quantity = lines[i].quantity
             /\ db'.carts[c] = <<>>
      ]_vars

\* C2's case: an order was just created from a cart of two lines, one of them
\* for two units.
C2_Witness ==
    /\ last.op = "create_order_from_cart"
    /\ last.result = "ok"
    /\ Len(Order_items(db, last.order_id)) = 2
    /\ \E i \in 1 .. 2 : Order_items(db, last.order_id)[i].quantity = 2
    /\ db.carts[last.customer] = <<>>

\* C3: for every persisted order, total_amount is the sum of line_total over
\* the order's current items, and every item's line_total is unit_price times
\* quantity.
C3_OrderTotals ==
    /\ \A o \in 1 .. Len(db.orders) :
          db.orders[o].total_amount = SumLineTotals(Order_items(db, o))
    /\ \A i \in 1 .. Len(db.order_items) :
          db.order_items[i].line_total =
              db.order_items[i].unit_price * db.order_items[i].quantity

\* C4: update_product and update_sku leave every order item (its unit_price
\* and line_total with it) and every order's total_amount as they were, in the
\* session and in the store.
C4_PriceSnapshot ==
    [][(last'.op \in {"update_product", "update_sku"}) =>
          /\ sess'.order_items = sess.order_items
          /\ \A o \in 1 .. Len(sess.orders) :
                sess'.orders[o].total_amount = sess.orders[o].total_amount
          /\ \A i \in 1 .. Len(db.order_items) :
                /\ db'.order_items[i].unit_price = db.order_items[i].unit_price
                /\ db'.order_items[i].line_total = db.order_items[i].line_total
          /\ \A o \in 1 .. Len(db.orders) :
                db'.orders[o].total_amount = db.orders[o].total_amount
      ]_vars

\* C4's case: a price was just edited and a persisted order item of that
\* product or SKU carries a unit_price that is no longer the catalog price.
C4_Witness ==
    /\ last.op \in {"update_product", "update_sku"}
    /\ last.result = "ok"
    /\ \E i \in 1 .. Len(db.order_items) :
          LET it == db.order_items[i]
          IN /\ db.skus[it.sku_id].exists
             /\ (last.op = "update_product" => it.product_id = last.product_id)
             /\ (last.op = "update_sku" => it.sku_id = last.sku_id)
             /\ it.unit_price # get_final_price(db.products[it.product_id], db.skus[it.sku_id])
             /\ it.line_total = it.unit_price * it.quantity

\* C5: with cart operations and checkouts only, every SKU's inventory stays
\* >= 0 and the units of a SKU in persisted order items never exceed the
\* SKU's initial inventory.
C5_NoOversell ==
    \A s \in SKUs :
        /\ db.skus[s].inventory >= 0
        /\ sess.skus[s].inventory >= 0
        /\ UnitsOrdered(db, s) <= initial_inventory[s]

\* C5's case: the whole stock of s1 is sold and a further checkout for s1 was
\* just refused.
C5_Witness ==
    /\ initial_inventory["s1"] > 0
    /\ UnitsOrdered(db, "s1") = initial_inventory["s1"]
    /\ db.skus["s1"].inventory = 0
    /\ last.op = "create_order_from_cart"
    /\ last.result = "InsufficientInventory"

\* C6 as stated: add_item_to_cart fails with InsufficientInventory whenever the
\* quantity exceeds the SKU's inventory, and succeeds when 0 < quantity <=
\* inventory and the product is available.
C6_AsStated ==
    last.op = "add_item_to_cart" =>
        LET sku == sess.skus[last.sku_id]
            product == sess.products[sku.product_id]
        IN /\ last.quantity > sku.inventory => last.result = "InsufficientInventory"
           /\ (0 < last.quantity /\ last.quantity <= sku.inventory /\ product.available)
                 => last.result = "ok"

\* C6, amended: add_item_to_cart on an existing SKU fails whenever the quantity
\* exceeds the SKU's inventory, with InsufficientInventory when the SKU is
\* available (inventory > 0 and product available) and with Unavailable when
\* it is not; it succeeds when 0 < quantity <= inventory and the product is
\* available.
C6_AddItemErrors ==
    (last.op = "add_item_to_cart" /\ sess.skus[last.sku_id].exists) =>
        LET sku == sess.skus[last.sku_id]
            product == sess.products[sku.product_id]
        IN /\ (last.quantity > sku.inventory /\ sku.inventory > 0 /\ product.available)
                 => last.result = "InsufficientInventory"
           /\ (last.quantity > sku.inventory /\ ~(sku.inventory > 0 /\ product.available))
                 => last.result = "Unavailable"
           /\ (0 < last.quantity /\ last.quantity <= sku.inventory /\ product.available)
                 => last.result = "ok"

\* C6's case: more than the stock of an available SKU was just asked for and
\* refused.
C6_Witness ==
    /\ last.op = "add_item_to_cart"
    /\ sess.skus[last.sku_id].inventory > 0
    /\ sess.products[sess.skus[last.sku_id].product_id].available
    /\ last.quantity > sess.skus[last.sku_id].inventory
    /\ last.result = "InsufficientInventory"

\* C7: every cart line has quantity >= 1 and a cart holds at most one line per
\* SKU.
C7_CartLines ==
    \A c \in Customers :
        /\ \A i \in 1 .. Len(db.carts[c]) : db.carts[c][i].quantity >= 1
        /\ \A i, j \in 1 .. Len(db.carts[c]) :
              db.carts[c][i].sku_id = db.carts[c][j].sku_id => i = j

\* C8: login_user_account refuses a suspended account with AccountSuspended
\* (an unapproved vendor included), refuses an unsuspended unapproved vendor
\* with PendingApproval, and logs every other account in; no login of an
\* account that is suspended at that time succeeds.
C8_LoginGate ==
    (last.op = "login" /\ last.user_id # NoUser) =>
        LET user == db.users[last.user_id]
        IN /\ user.suspended =>
                 last.result = "AccountSuspended" /\ current_user # last.user_id
           /\ (~user.suspended /\ user.role = "vendor" /\ ~user.approved) =>
                 last.result = "PendingApproval" /\ current_user # last.user_id
           /\ (~user.suspended /\ ~(user.role = "vendor" /\ ~user.approved)) =>
                 last.result = "ok" /\ current_user = last.user_id

\* C8's case: a suspended vendor that is not approved either was just refused
\* as suspended.
C8_Witness ==
    /\ last.op = "login"
    /\ last.user_id # NoUser
    /\ db.users[last.user_id].suspended
    /\ db.users[last.user_id].role = "vendor"
    /\ ~db.users[last.user_id].approved
    /\ last.result = "AccountSuspended"

\* C9 as stated: every login attempt with the vendor's own password fails with
\* PendingApproval while the vendor is not approved, and succeeds once the
\* vendor is approved.
C9_AsStated ==
    last.op = "login" =>
        \A v \in 1 .. Len(db.users) :
            (/\ db.users[v].role = "vendor"
             /\ db.users[v].email = last.email
             /\ check_password(db.users[v], last.password)) =>
                /\ ~db.users[v].approved => last.result = "PendingApproval"
                /\ db.users[v].approved => last.result = "ok"

\* C9, amended: while a vendor is not approved no login attempt for it
\* succeeds: with the vendor's password it fails with PendingApproval, or with
\* AccountSuspended when the vendor is suspended, and with another password it
\* fails with InvalidCredentials; approve_vendor leaves the vendor approved and
\* not suspended, and a login with the vendor's password for an approved
\* vendor succeeds exactly when the vendor is not suspended at that time.
C9_VendorApproval ==
    /\ last.op = "login" =>
          \A v \in 1 .. Len(db.users) :
              (db.users[v].role = "vendor" /\ db.users[v].email = last.email) =>
                  LET user == db.users[v]
                      right == user.password_hash = generate_password_hash(last.password)
                  IN /\ ~right => last.result = "InvalidCredentials"
                     /\ (right /\ user.suspended) => last.result = "AccountSuspended"
                     /\ (right /\ ~user.suspended /\ ~user.approved)
                           => last.result = "PendingApproval"
                     /\ (right /\ ~user.suspended /\ user.approved)
                           => last.result = "ok" /\ current_user = v
    /\ (last.op = "approve_vendor" /\ last.result = "ok") =>
          /\ db.users[last.user_id].approved
          /\ ~db.users[last.user_id].suspended

\* C9's case: an approved vendor just logged in.
C9_Witness ==
    /\ last.op = "login"
    /\ last.result = "ok"
    /\ db.users[last.user_id].role = "vendor"
    /\ db.users[last.user_id].approved
    /\ current_user = last.user_id

\* C10: a newly registered vendor has approved = false, a newly registered
\* customer and a newly created admin have approved = true, and all three
\* have suspended = false.
C10_NewAccountFlags ==
    (last.op \in {"register_customer", "register_vendor", "create_admin"}
        /\ last.result = "ok") =>
        LET user == db.users[last.user_id]
        IN /\ last.op = "register_customer" => user.role = "customer" /\ user.approved
           /\ last.op = "register_vendor" => user.role = "vendor" /\ ~user.approved
           /\ last.op = "create_admin" => user.role = "admin" /\ user.approved
           /\ ~user.suspended

\* C10's case: a vendor was just registered.
C10_Witness ==
    /\ last.op = "register_vendor"
    /\ last.result = "ok"
    /\ db.users[last.user_id].role = "vendor"
    /\ Len(db.users) = last.user_id

\* No two accounts of the store S share an email.
UniqueEmails(S) ==
    \A u, v \in 1 .. Len(S.users) : S.users[u].email = S.users[v].email => u = v

\* C11: no two accounts share an email, in the store and in the session; a
\* registration with an email in use returns DuplicateEmail and creates no
\* account, one with a free email creates the account; update_profile to an
\* email held by another account fails and leaves the customer's email as it
\* was, and otherwise sets it.
C11_UniqueEmails ==
    /\ [](UniqueEmails(db) /\ UniqueEmails(sess))
    /\ [][/\ last'.op \in {"register_customer", "register_vendor"} =>
                IF user_by_email(sess, last'.email) # NoUser
                THEN /\ last'.result = "DuplicateEmail"
                     /\ db'.users = db.users
                     /\ sess'.users = sess.users
                ELSE /\ last'.result = "ok"
                     /\ Len(db'.users) = Len(sess.users) + 1
                     /\ db'.users[last'.user_id].email = last'.email
          /\ (last'.op = "update_profile" /\ last'.email # NoEmail) =>
                LET u == last'.user_id
                    held == \E v \in 1 .. Len(sess.users) :
                                v # u /\ sess.users[v].email = last'.email
                IN IF held
                   THEN /\ last'.result = "EmailInUse"
                        /\ sess'.users[u].email = sess.users[u].email
                        /\ db'.users = db.users
                   ELSE /\ last'.result = "ok"
                        /\ db'.users[u].email = last'.email
         ]_vars

\* C11's case: a customer just asked for the email of another account and was
\* refused.
C11_Witness ==
    /\ last.op = "update_profile"
    /\ last.result = "EmailInUse"
    /\ Len(db.users) = 2
    /\ db.users[last.user_id].email # last.email
    /\ \E v \in 1 .. Len(db.users) : db.users[v].email = last.email

\* The reviews of the store S that customer c has on product p.
ReviewsOf(S, c, p) ==
    {i \in 1 .. Len(S.reviews) :
        S.reviews[i].exists /\ S.reviews[i].customer_id = c /\ S.reviews[i].product_id = p}

\* C12: a customer has at most one review per product; add_review with a valid
\* rating for a pair that has a review fails with DuplicateReview and leaves
\* the reviews as they were, and for a pair that has none (never had, or had
\* it deleted) it succeeds and creates the pair's review.
C12_OneReviewPerProduct ==
    /\ [](\A c \in Customers, p \in Products : Cardinality(ReviewsOf(db, c, p)) <= 1)
    /\ [][(last'.op = "add_review" /\ last'.rating \in 1 .. 5) =>
             IF ReviewsOf(sess, last'.customer, last'.product_id) # {}
             THEN /\ last'.result = "DuplicateReview"
                  /\ db'.reviews = db.reviews
                  /\ sess'.reviews = sess.reviews
             ELSE /\ last'.result = "ok"
                  /\ ReviewsOf(db', last'.customer, last'.product_id) = {last'.review_id}
         ]_vars

\* C12's case: a customer just reviewed a product again after the earlier
\* review of it was deleted.
C12_Witness ==
    /\ last.op = "add_review"
    /\ last.result = "ok"
    /\ \E i \in 1 .. Len(db.reviews) :
          /\ ~db.reviews[i].exists
          /\ db.reviews[i].customer_id = last.customer
          /\ db.reviews[i].product_id = last.product_id
          /\ i < last.review_id

\* The payment records of the store S for order o.
PaymentsOf(S, o) ==
    {i \in 1 .. Len(S.payment_records) : S.payment_records[i].order_id = o}

\* C13: attach_payment_record with an amount other than the order's
\* total_amount fails with AmountMismatch, creates no payment record and
\* leaves the order's status (and everything else) as it was; every persisted
\* payment record carries the total_amount of its order.
C13_AmountMismatch ==
    /\ [](\A i \in 1 .. Len(db.payment_records) :
             db.payment_records[i].amount =
                 db.orders[db.payment_records[i].order_id].total_amount)
    /\ [][(/\ last'.op = "attach_payment_record"
            /\ last'.amount # sess.orders[last'.order_id].total_amount) =>
               /\ last'.result = "AmountMismatch"
               /\ db' = db
               /\ sess'.payment_records = sess.payment_records
               /\ sess'.orders = sess.orders
         ]_vars

\* C13's case: a payment of the wrong amount was just refused for a pending
\* order that has no payment record.
C13_Witness ==
    /\ last.op = "attach_payment_record"
    /\ last.result = "AmountMismatch"
    /\ last.amount # db.orders[last.order_id].total_amount
    /\ PaymentsOf(db, last.order_id) = {}
    /\ db.orders[last.order_id].status = "pending"

\* C14: no order has more than one payment record; attach_payment_record on an
\* order that has one fails and leaves the store, the first record and the
\* order's status included, as it was before the call.
C14_OnePaymentPerOrder ==
    /\ [](\A o \in 1 .. Len(db.orders) : Cardinality(PaymentsOf(db, o)) <= 1)
    /\ [][(/\ last'.op = "attach_payment_record"
            /\ PaymentsOf(sess, last'.order_id) # {}) =>
               /\ last'.result \in {"Failed", "AmountMismatch"}
               /\ db' = db
               /\ last'.result = "Failed" => sess' = db
         ]_vars

\* C14's case: a second payment with the right amount was just refused for an
\* order that was shipped after the first payment, and the order is still
\* shipped.
C14_Witness ==
    /\ last.op = "attach_payment_record"
    /\ last.result = "Failed"
    /\ Cardinality(PaymentsOf(db, last.order_id)) = 1
    /\ last.amount = db.orders[last.order_id].total_amount
    /\ db.orders[last.order_id].status = "shipped"
    /\ sess = db

\* The statuses the specification enumerates for an order.
EnumeratedStatuses == {"pending", "paid", "processing", "shipped", "delivered", "cancelled"}

\* C15: update_order_status with a status outside {pending, paid, processing,
\* shipped, delivered, cancelled} fails with InvalidStatus and changes
\* nothing; with a status of the set and an existing order it sets the
\* order's status to it, whatever the status was; every order's status is in
\* the set in every state.
C15_OrderStatus ==
    /\ [](/\ \A o \in 1 .. Len(db.orders) : db.orders[o].status \in EnumeratedStatuses
          /\ \A o \in 1 .. Len(sess.orders) : sess.orders[o].status \in EnumeratedStatuses)
    /\ [][last'.op = "update_order_status" =>
             IF last'.status \notin EnumeratedStatuses
             THEN last'.result = "InvalidStatus" /\ db' = db /\ sess' = sess
             ELSE last'.order_id \in 1 .. Len(sess.orders) =>
                     /\ last'.result = "ok"
                     /\ db'.orders[last'.order_id].status = last'.status
                     /\ sess'.orders[last'.order_id].status = last'.status
         ]_vars

\* C15's case: an order that has been paid was just set back to pending.
C15_Witness ==
    /\ last.op = "update_order_status"
    /\ last.result = "ok"
    /\ last.status = "pending"
    /\ db.orders[last.order_id].status = "pending"
    /\ PaymentsOf(db, last.order_id) # {}

\* C21: a successful attach_payment_record sets the order's status to paid
\* whatever it was before (shipped, delivered and cancelled included) and
\* stores the order's payment record.
C21_PaidWhateverBefore ==
    [][(last'.op = "attach_payment_record" /\ last'.result = "ok") =>
          /\ last'.status_before = sess.orders[last'.order_id].status
          /\ last'.status_before \in EnumeratedStatuses
          /\ db'.orders[last'.order_id].status = "paid"
          /\ sess'.orders[last'.order_id].status = "paid"
          /\ PaymentsOf(db, last'.order_id) = {}
          /\ Cardinality(PaymentsOf(db', last'.order_id)) = 1
      ]_vars

\* C21's case: a cancelled order was just paid.
C21_Witness ==
    /\ last.op = "attach_payment_record"
    /\ last.result = "ok"
    /\ last.status_before = "cancelled"
    /\ db.orders[last.order_id].status = "paid"

\* suspend_user and unsuspend_user change the suspended flag of their user and
\* nothing else of any account.
SuspensionLeavesApproval ==
    /\ (last'.op = "suspend_user" /\ last'.result = "ok") =>
          db'.users = [db.users EXCEPT ![last'.user_id].suspended = TRUE]
    /\ (last'.op = "unsuspend_user" /\ last'.result = "ok") =>
          db'.users = [db.users EXCEPT ![last'.user_id].suspended = FALSE]

\* C22 as stated: approve_vendor changes only the approved flag and leaves
\* suspended unchanged; suspend_user and unsuspend_user change only the
\* suspended flag.
C22_AsStated ==
    [][/\ (last'.op = "approve_vendor" /\ last'.result = "ok") =>
             db'.users = [db.users EXCEPT ![last'.user_id].approved = TRUE]
       /\ SuspensionLeavesApproval
      ]_vars

\* C22, amended: suspend_user and unsuspend_user change only the suspended
\* flag of their user and leave approved unchanged; approve_vendor sets
\* approved to true and also sets suspended to false, lifting a suspension
\* the vendor had, and changes nothing else.
C22_ApprovalLiftsSuspension ==
    [][/\ (last'.op = "approve_vendor" /\ last'.result = "ok") =>
             /\ last'.suspended_before = db.users[last'.user_id].suspended
             /\ db'.users = [db.users EXCEPT ![last'.user_id].approved = TRUE,
                                             ![last'.user_id].suspended = FALSE]
       /\ SuspensionLeavesApproval
      ]_vars

\* C22's case: a suspended vendor was just approved.
C22_Witness ==
    /\ last.op = "approve_vendor"
    /\ last.result = "ok"
    /\ last.suspended_before
    /\ db.users[last.user_id].approved
    /\ ~db.users[last.user_id].suspended

\* The SKU s exists before and after the step and the inventory the store
\* holds for it differs.
InventoryChanged(S, T, s) ==
    /\ S.skus[s].exists
    /\ T.skus[s].exists
    /\ T.skus[s].inventory # S.skus[s].inventory

C24_ProfileAllOrNothing ==
    [][/\ (last'.op = "update_profile" /\ last'.result = "EmailInUse") =>
             /\ db'.users = db.users
             /\ sess'.users = sess.users
       /\ \A u \in 1 .. Len(db.users) :
             db'.users[u].name # db.users[u].name =>
                 /\ last'.op = "update_profile"
                 /\ last'.result = "ok"
                 /\ last'.user_id = u
                 /\ last'.name = db'.users[u].name
      ]_vars

\* The product p or one of its SKUs differs between the stores S and T.
ProductTouched(S, T, p) ==
    \/ T.products[p] # S.products[p]
    \/ \E s \in SKUs : S.skus[s].product_id = p /\ T.skus[s] # S.skus[s]

\* C25: an edit or delete request for a product by a vendor other than
\* product.vendor_id is rejected as Unauthorized and leaves everything as it
\* was; an existing product and its SKUs change only in a request of the
\* product's vendor; a new product's vendor_id is the vendor that created it,
\* and it stays the same while the product exists.
C25_VendorScoped ==
    [][/\ \A p \in Products :
             (/\ last'.op \in {"edit_product", "vendor_delete_product",
                               "update_product", "delete_product"}
              /\ last'.product_id = p
              /\ sess.products[p].exists
              /\ sess.products[p].vendor_id # current_user) =>
                 /\ last'.result = "Unauthorized"
                 /\ db' = db
                 /\ sess' = sess
       /\ \A p \in Products :
             (db.products[p].exists /\ ProductTouched(db, db', p)) =>
                 /\ current_user = db.products[p].vendor_id
                 /\ db'.products[p].exists => db'.products[p].vendor_id = current_user
       /\ \A p \in Products :
             (~db.products[p].exists /\ db'.products[p].exists) =>
                 /\ last'.op = "create_product"
                 /\ last'.product_id = p
                 /\ db'.products[p].vendor_id = current_user
                 /\ current_user # NoUser
      ]_vars

\* C25's case: a vendor just asked to edit a product of the other vendor and
\* was refused.
C25_Witness ==
    /\ last.op = "edit_product"
    /\ last.result = "Unauthorized"
    /\ current_user # NoUser
    /\ db.users[current_user].role = "vendor"
    /\ db.products[last.product_id].exists
    /\ db.products[last.product_id].vendor_id # current_user
    /\ db.products[last.product_id].vendor_id \in 1 .. Len(db.users)

\* Sum over the lines of cart c of (base_price + price_adjustment) x quantity
\* at the prices of the store S.
CurrentPriceSum(S, c) ==
    LET items == S.carts[c]
        sum[i \in 0 .. Len(items)] ==
            IF i = 0 THEN 0
            ELSE sum[i - 1]
                 + (S.products[S.skus[items[i].sku_id].product_id].base_price
                    + S.skus[items[i].sku_id].price_adjustment) * items[i].quantity
    IN sum[Len(items)]

\* Units of SKU s in cart c of the store S.
UnitsInCart(S, c, s) == SumQuantity(SelectSeq(S.carts[c], LAMBDA it : it.sku_id = s))

\* C26: calculate_cart_total is the sum over the cart's lines of (current
\* base_price + current price_adjustment) x quantity; an update_sku that
\* changes a price adjustment moves it by the change times the units of the
\* SKU in the cart; a successful create_order_from_cart gives the new order
\* the total_amount that calculate_cart_total had just before it.
C26_CartTotal ==
    /\ [](\A c \in DOMAIN sess.carts : calculate_cart_total(sess, c) = CurrentPriceSum(sess, c))
    /\ [][/\ (last'.op = "update_sku" /\ last'.result = "ok") =>
                 \A c \in DOMAIN sess.carts :
                     calculate_cart_total(sess', c) - calculate_cart_total(sess, c)
                         = (sess'.skus[last'.sku_id].price_adjustment
                            - sess.skus[last'.sku_id].price_adjustment)
                           * UnitsInCart(sess, c, last'.sku_id)
          /\ (last'.op = "create_order_from_cart" /\ last'.result = "ok") =>
                 /\ calculate_cart_total(sess, last'.customer) > 0
                 /\ db'.orders[last'.order_id].total_amount
                       = calculate_cart_total(sess, last'.customer)
         ]_vars

\* C26's case: an order was just created from a cart with a line whose SKU has
\* a price adjustment, at the adjusted price.
C26_Witness ==
    /\ last.op = "create_order_from_cart"
    /\ last.result = "ok"
    /\ \E i \in 1 .. Len(db.order_items) :
          LET it == db.order_items[i]
          IN /\ it.order_id = last.order_id
             /\ db.skus[it.sku_id].exists
             /\ db.skus[it.sku_id].price_adjustment = 1
             /\ it.unit_price = db.products[it.product_id].base_price + 1
             /\ db.orders[last.order_id].total_amount >= it.unit_price * it.quantity

\* Every cart line of the store S refers to an existing SKU, and every order
\* item to an existing product and an existing SKU of that product.
NoDanglingReference(S) ==
    /\ \A c \in DOMAIN S.carts : \A i \in 1 .. Len(S.carts[c]) :
          S.skus[S.carts[c][i].sku_id].exists
    /\ \A i \in 1 .. Len(S.order_items) :
          /\ S.products[S.order_items[i].product_id].exists
          /\ S.skus[S.order_items[i].sku_id].exists
          /\ S.skus[S.order_items[i].sku_id].product_id = S.order_items[i].product_id

\* C27: delete_product removes the product and all of its SKUs; in every
\* state, persisted or of the session, each cart line refers to an existing
\* SKU and each order item to an existing product and SKU.
C27_NoDanglingReference ==
    /\ [](NoDanglingReference(db) /\ NoDanglingReference(sess))
    /\ [][(last'.op = "delete_product" /\ last'.result = "ok") =>
             /\ sess.products[last'.product_id].exists
             /\ ~db'.products[last'.product_id].exists
             /\ \A s \in SKUs :
                   sess.skus[s].product_id = last'.product_id => ~db'.skus[s].exists
             /\ \A s \in SKUs :
                   sess.skus[s].product_id # last'.product_id => db'.skus[s] = sess.skus[s]
         ]_vars

\* C27's case: a product that had been ordered was just deleted: its order is
\* left with an amount and without items.
C27_Witness ==
    /\ last.op = "delete_product"
    /\ last.result = "ok"
    /\ ~db.products[last.product_id].exists
    /\ \E o \in 1 .. Len(db.orders) :
          /\ db.orders[o].total_amount > 0
          /\ Order_items(db, o) = <<>>

C29_OneReviewUnderInterleaving ==
    \A c \in Customers, p \in Products :
        \A i, j \in ReviewsOf(db, c, p) : i = j

\* Every review row of the store S, deleted ones included, has a rating in
\* 1..5.
RatingsInRange(S) == \A i \in 1 .. Len(S.reviews) : S.reviews[i].rating \in 1 .. 5

\* The step is an add_review or update_review call with a rating outside 1..5.
RatingOutOfRange ==
    /\ last'.op \in {"add_review", "update_review"}
    /\ last'.rating \notin 1 .. 5

\* C30 as stated: every persisted rating is in 1..5, and every add_review or
\* update_review call with a rating outside 1..5 fails with InvalidRating and
\* changes nothing.
C30_AsStated ==
    /\ [](RatingsInRange(db) /\ RatingsInRange(sess))
    /\ [][RatingOutOfRange =>
             /\ last'.result = "InvalidRating"
             /\ db' = db
             /\ sess' = sess
         ]_vars

\* C30, amended: every persisted rating is in 1..5; add_review with a rating
\* outside 1..5 fails with InvalidRating, update_review with such a rating
\* fails with InvalidRating when the review exists and reports that the
\* review was not found when it does not; in each case the reviews, their
\* ratings and their comments are what they were.
C30_RatingRange ==
    /\ [](RatingsInRange(db) /\ RatingsInRange(sess))
    /\ [][RatingOutOfRange =>
             /\ last'.result =
                    IF /\ last'.op = "update_review"
                       /\ ~(/\ last'.review_id \in 1 .. Len(sess.reviews)
                            /\ sess.reviews[last'.review_id].exists)
                    THEN "NotFound"
                    ELSE "InvalidRating"
             /\ db' = db
             /\ sess' = sess
         ]_vars

\* C30's case: update_review with rating 6 and a new comment was just refused
\* for an existing review, which keeps its rating and its first comment.
C30_Witness ==
    /\ last.op = "update_review"
    /\ last.rating = 6
    /\ last.result = "InvalidRating"
    /\ db.reviews[last.review_id].exists
    /\ db.reviews[last.review_id].rating \in 1 .. 5
    /\ db.reviews[last.review_id].comment = FirstComment

\* The requester is authenticated and has role r.
RequesterHasRole(r) == current_user # NoUser /\ sess.users[current_user].role = r

\* C16: the body of a role-gated route runs only for an authenticated
\* requester whose role is the required one; every other request is
\* redirected (to the login page when unauthenticated, to the index page when
\* the role differs) and changes no state.
C16_RoleGate ==
    [][/\ last'.op \in {"approve_vendor", "suspend_user", "unsuspend_user"}
            => RequesterHasRole("admin")
       /\ last'.op \in {"submit_review", "add_review"} => RequesterHasRole("customer")
       /\ last'.op = "redirect" =>
             /\ ~RequesterHasRole(last'.required_role)
             /\ last'.result = IF current_user = NoUser THEN "RedirectLogin" ELSE "AccessDenied"
             /\ db' = db
             /\ sess' = sess
             /\ current_user' = current_user
      ]_vars

\* C16's case: a logged-in vendor was just refused on an admin route.
C16_Witness ==
    /\ last.op = "redirect"
    /\ last.required_role = "admin"
    /\ last.result = "AccessDenied"
    /\ current_user # NoUser
    /\ db.users[current_user].role = "vendor"

\* A line of the cart of customer c asks for more than the stock of its SKU.
OverStock(S, c) ==
    \E i \in 1 .. Len(S.carts[c]) :
        S.carts[c][i].quantity > S.skus[S.carts[c][i].sku_id].inventory

\* Every line of the cart of customer c is for a product on sale.
AllOnSale(S, c) ==
    \A i \in 1 .. Len(S.carts[c]) :
        S.products[S.skus[S.carts[c][i].sku_id].product_id].available

C18_UpdateQuantity ==
    [][last'.op = "update_item_quantity" =>
          LET c == last'.cart
              q == last'.quantity
              lines == sess.carts[c]
              i == first_item(lines, last'.sku_id)
          IN /\ q <= 0 =>
                   db'.carts[c] = SelectSeq(lines, LAMBDA it : it.sku_id # last'.sku_id)
             /\ (q > 0 /\ i = 0) => db' = db /\ sess' = sess
             /\ (q > 0 /\ i # 0 /\ q > sess.skus[last'.sku_id].inventory) =>
                   /\ last'.result = "InsufficientInventory"
                   /\ db' = db
                   /\ sess' = sess
             /\ (q > 0 /\ i # 0 /\ q <= sess.skus[last'.sku_id].inventory) =>
                   /\ last'.result = "ok"
                   /\ Len(db'.carts[c]) = Len(lines)
                   /\ db'.carts[c][i].quantity = q
                   /\ \A j \in 1 .. Len(lines) : j # i => db'.carts[c][j] = lines[j]
      ]_vars

\* C18's case: a line was just set to a smaller quantity than the stock, in a
\* cart with another line.
C18_Witness ==
    /\ last.op = "update_item_quantity"
    /\ last.result = "ok"
    /\ Len(db.carts[last.cart]) = 2
    /\ \E i \in 1 .. 2 :
          /\ db.carts[last.cart][i].sku_id = last.sku_id
          /\ db.carts[last.cart][i].quantity = last.quantity
          /\ last.quantity < db.skus[last.sku_id].inventory

\* The (sku, quantity) pairs of a sequence of cart lines or order items.
LinesOf(items) ==
    [i \in 1 .. Len(items) |-> [sku_id |-> items[i].sku_id, quantity |-> items[i].quantity]]

\* Every line of the cart of customer c is in stock and on sale.
InStock(S, c) ==
    \A i \in 1 .. Len(S.carts[c]) :
        /\ S.carts[c][i].quantity <= S.skus[S.carts[c][i].sku_id].inventory
        /\ S.products[S.skus[S.carts[c][i].sku_id].product_id].available

\* C19: when create_order_from_cart stops after the order commit and before
\* the cart clear, the order and its items are persisted, the stock is taken
\* and the cart keeps its lines; the next create_order_from_cart on that cart
\* is not recognised as a repeat: when the stock suffices it creates a second
\* order with the same lines and takes the stock a second time.
C19_CrashBetweenCommits ==
    [][/\ (last'.op = "create_order_from_cart" /\ last'.result = "Crashed") =>
             LET c == last'.customer
                 o == last'.order_id
             IN /\ Len(db'.orders) = Len(db.orders) + 1
                /\ LinesOf(Order_items(db', o)) = LinesOf(sess.carts[c])
                /\ \A i \in 1 .. Len(sess.carts[c]) :
                      db'.skus[sess.carts[c][i].sku_id].inventory =
                          sess.skus[sess.carts[c][i].sku_id].inventory - sess.carts[c][i].quantity
                /\ db'.carts[c] = sess.carts[c]
                /\ db'.carts[c] # <<>>
       /\ (last'.op = "create_order_from_cart" /\ last'.result # "Crashed" /\ last'.retry) =>
             LET c == last'.customer
                 o == last'.order_id
             IN /\ LinesOf(sess.carts[c]) = LinesOf(Order_items(db, last.order_id))
                /\ InStock(sess, c) =>
                      /\ last'.result = "ok"
                      /\ Len(db'.orders) = Len(db.orders) + 1
                      /\ LinesOf(Order_items(db', o)) = LinesOf(Order_items(db, last.order_id))
                      /\ \A i \in 1 .. Len(sess.carts[c]) :
                            db'.skus[sess.carts[c][i].sku_id].inventory =
                                db.skus[sess.carts[c][i].sku_id].inventory
                                    - sess.carts[c][i].quantity
                /\ ~InStock(sess, c) => last'.result = "InsufficientInventory" /\ db' = db
      ]_vars

\* C19's case: the checkout that followed an interrupted one just succeeded:
\* two orders with the same lines exist and the stock was taken twice.
C19_Witness ==
    /\ last.op = "create_order_from_cart"
    /\ last.result = "ok"
    /\ last.retry
    /\ last.order_id = 2
    /\ LinesOf(Order_items(db, 1)) = LinesOf(Order_items(db, 2))
    /\ \A s \in SKUs : db.skus[s].inventory = initial_inventory[s] - UnitsOrdered(db, s)
    /\ UnitsOrdered(db, "s1") = 2

====
